---- MODULE Spec2Model ----
(***************************************************************************)
(* Model of the e-mail core of THL-Leo/emailMCP:                           *)
(*   src/src/lib/email-mcp-server.ts   (EmailMCPServer, the tool surface)  *)
(*   src/src/app/api/emails/route.ts   (GET = search, POST = send)         *)
(*   src/src/lib/openai-client.ts      (OpenAIEmailClient, chat client)    *)
(*                                                                         *)
(* Time is counted in minutes (the code compares milliseconds; every       *)
(* quantity it compares is a multiple of one minute in this model), and    *)
(* Date.getTime() of a message date is counted in days.                    *)
(***************************************************************************)
EXTENDS Integers, Sequences, FiniteSets, TLC

VARIABLES
    now,      \* the wall clock (Date.now()) during the invocation, in minutes
    store,    \* the owner's accounts as held by the account store
    call,     \* the invocation in progress: its kind, arguments, snapshot, result
    branch,   \* the per-account asynchronous branches of the invocation
    issued,   \* per account, the number of access tokens its token endpoint issued
    chat,     \* one invocation of OpenAIEmailClient.generateResponse
    probe     \* input and outcome of a pure function under test

vars == <<now, store, call, branch, issued, chat, probe>>

----------------------------------------------------------------------------
(* Bounds of the model *)

MaxAccounts == 2      \* accounts connected by the owner
MaxMsgs == 2          \* messages one provider search returns
MaxPad == 1           \* whitespace characters around a chat message
MaxHistory == 2       \* turns of conversation history

----------------------------------------------------------------------------
(* Program constants *)

\* 5 * 60 * 1000 ms, the refresh window
RefreshWindow == 5

\* tokens.expires_in of a refresh response, in minutes
ExpiresIn == 60

Providers == {"gmail", "microsoft"}

NoProvider == "none"

SessionUser == "u1"

Undefined == "undefined"

----------------------------------------------------------------------------
(* Numbers with NaN, as produced by Date.getTime() *)

NaN == [nan |-> TRUE, v |-> 0]

Num(n) == [nan |-> FALSE, v |-> n]

\* a - b on JS numbers
NumSub(a, b) == IF a.nan \/ b.nan THEN NaN ELSE Num(a.v - b.v)

\* a < b on JS numbers: false when either side is NaN
NumLess(a, b) == ~a.nan /\ ~b.nan /\ a.v < b.v


----------------------------------------------------------------------------
(* Dates.  A Date header is modelled as the tuple <<year, month, day>> of an *)
(* ISO date, the empty tuple for the empty string, and any other tuple for  *)
(* text that is no date.                                                    *)

EmptyDate == <<>>

\* days from 1970-01-01 to the civil date y-m-d (proleptic Gregorian)
DaysFromCivil(y, m, d) ==
    LET yy == IF m <= 2 THEN y - 1 ELSE y
        era == yy \div 400
        yoe == yy - era * 400
        mp == (m + 9) % 12
        doy == (153 * mp + 2) \div 5 + d - 1
        doe == yoe * 365 + yoe \div 4 - yoe \div 100 + doy
    IN  era * 146097 + doe - 719468

\* new Date(s).getTime(): NaN when s is not a date
GetTime(s) ==
    IF Len(s) = 3 /\ s[2] \in 1..12 /\ s[3] \in 1..31
    THEN Num(DaysFromCivil(s[1], s[2], s[3]))
    ELSE NaN

----------------------------------------------------------------------------
(* Array helpers *)

\* emailResults.flat()
RECURSIVE Flat(_)
Flat(lists) ==
    IF lists = <<>> THEN <<>> ELSE Head(lists) \o Flat(Tail(lists))

\* allEmails.slice(0, n)
Slice(s, n) == SubSeq(s, 1, IF n < Len(s) THEN n ELSE Len(s))

\* accounts.filter(pred) as the increasing sequence of the indices kept
RECURSIVE FilterIdx(_, _, _)
FilterIdx(accounts, provider, i) ==
    IF i > Len(accounts) THEN <<>>
    ELSE IF accounts[i].provider = provider
         THEN <<i>> \o FilterIdx(accounts, provider, i + 1)
         ELSE FilterIdx(accounts, provider, i + 1)

\* no filter: every account, whatever provider is requested
UnfilteredAccounts(accounts, provider) == [i \in 1..Len(accounts) |-> i]

\* provider ? accounts.filter(acc => acc.provider === provider) : accounts
FilteredAccounts(accounts, provider) ==
    IF provider # NoProvider
    THEN FilterIdx(accounts, provider, 1)
    ELSE [i \in 1..Len(accounts) |-> i]

----------------------------------------------------------------------------
(* allEmails.sort((a, b) => new Date(b.date).getTime() -                    *)
(*                          new Date(a.date).getTime())                     *)
(* Array.prototype.sort on a short array: the initial run is counted (and   *)
(* reversed when strictly descending), the rest is inserted by binary       *)
(* insertion; a comparator result of NaN counts as 0.                       *)

\* a comparator that puts the oldest first
DateComparatorAscending(a, b) == NumSub(GetTime(a.date), GetTime(b.date))

\* the comparator of the three search handlers
DateComparator(a, b) == NumSub(GetTime(b.date), GetTime(a.date))

\* the comparator as the sort sees it: NaN becomes +0
SortCompare(a, b) ==
    LET v == DateComparator(a, b) IN IF v.nan THEN 0 ELSE v.v

RECURSIVE RunLength(_, _, _)
RunLength(arr, descending, idx) ==
    IF idx > Len(arr) THEN idx - 1
    ELSE LET order == SortCompare(arr[idx], arr[idx - 1])
         IN  IF descending
             THEN IF order >= 0 THEN idx - 1 ELSE RunLength(arr, descending, idx + 1)
             ELSE IF order < 0 THEN idx - 1 ELSE RunLength(arr, descending, idx + 1)

Reverse(s) == [i \in 1..Len(s) |-> s[Len(s) + 1 - i]]

\* the array after its initial run is made ascending, and the run's length
CountAndMakeRun(arr) ==
    IF Len(arr) < 2 THEN [arr |-> arr, run |-> Len(arr)]
    ELSE LET descending == SortCompare(arr[2], arr[1]) < 0
             run == RunLength(arr, descending, 3)
         IN  [arr |-> IF descending
                      THEN Reverse(SubSeq(arr, 1, run)) \o SubSeq(arr, run + 1, Len(arr))
                      ELSE arr,
              run |-> run]

\* the insertion point of pivot in arr[left .. right-1] (0-based bounds)
RECURSIVE BinarySearch(_, _, _, _)
BinarySearch(arr, pivot, left, right) ==
    IF left >= right THEN left
    ELSE LET mid == left + ((right - left) \div 2)
         IN  IF SortCompare(pivot, arr[mid + 1]) < 0
             THEN BinarySearch(arr, pivot, left, mid)
             ELSE BinarySearch(arr, pivot, mid + 1, right)

\* arr[start+1 ..] inserted one by one into the sorted prefix arr[1 .. start]
RECURSIVE BinaryInsertionSort(_, _)
BinaryInsertionSort(arr, start) ==
    IF start >= Len(arr) THEN arr
    ELSE LET pivot == arr[start + 1]
             pos == BinarySearch(arr, pivot, 0, start)
             moved == SubSeq(arr, 1, pos) \o <<pivot>> \o SubSeq(arr, pos + 1, start)
                      \o SubSeq(arr, start + 2, Len(arr))
         IN  BinaryInsertionSort(moved, start + 1)

\* newest first
SortByDateDesc(arr) ==
    LET r == CountAndMakeRun(arr) IN BinaryInsertionSort(r.arr, r.run)

----------------------------------------------------------------------------
(* Entry points *)

SearchKinds == {"server_search", "route_get", "client_search"}

SendKinds == {"server_compose", "route_post"}

\* the tools of the server that are declared but not implemented
StubKinds == {"server_get_email", "server_summarize"}

\* a tools/call request naming a tool the server does not have
UnknownTool == "server_unknown"

Kinds == SearchKinds \cup SendKinds \cup StubKinds \cup {UnknownTool}

\* the entry points that check their arguments: the two implemented tools
\* (zod schema) and POST /api/emails (required fields)
ValidatingKinds == {"server_search", "server_compose", "route_post"}

\* the entry points a request with malformed arguments can reach through a
\* declared argument schema or a required-fields check
SchemaKinds == ValidatingKinds \cup StubKinds

\* the draft a send entry point is called with
Draft == [to |-> "a@example.com", subject |-> "Hi", body |-> "Hello"]

----------------------------------------------------------------------------
(* Account store (external RPCs get_user_email_accounts, upsert_email_account) *)

\* upsert_email_account: one logical account per (owner, provider, email);
\* a call whose p_user_id is not the owner's leaves the owner's accounts alone
StoreUpsert(s, p) ==
    IF p.p_user_id # SessionUser THEN s
    ELSE [i \in 1..Len(s) |->
            IF s[i].provider = p.p_provider /\ s[i].email = p.p_email
            THEN [s[i] EXCEPT !.access_token = p.p_access_token,
                              !.refresh_token = p.p_refresh_token,
                              !.expires_at = p.p_expires_at]
            ELSE s[i]]

----------------------------------------------------------------------------
(* Token lifecycle: refreshTokenIfNeeded, in its three copies *)

\* a refresh window that takes in its own edge
NeedsRefreshInclusive(expires_at, t) == expires_at - t <= RefreshWindow

\* expiresAt.getTime() - now.getTime() < 5 * 60 * 1000
NeedsRefresh(expires_at, t) == expires_at - t < RefreshWindow

\* the providers whose refresh exchange the caller's copy implements
RefreshProviders(kind) ==
    IF kind \in {"route_get", "route_post"} THEN {"gmail", "microsoft"} ELSE {"gmail"}

\* the account object handed to refreshTokenIfNeeded
\* (GET: { ...account, user_id: user.id }; every other caller: the row as loaded)
AccountArgument(kind, row) ==
    [provider |-> row.provider, email |-> row.email,
     access_token |-> row.access_token, refresh_token |-> row.refresh_token,
     expires_at |-> row.expires_at,
     user_id |-> IF kind = "route_get" THEN SessionUser ELSE Undefined]

\* p_user_id of the upsert: account.user_id in route.ts, the session's user id
\* (this.userId, userId) in the server and the chat client
UpsertUserId(kind, account) ==
    IF kind \in {"route_get", "route_post"} THEN account.user_id ELSE SessionUser

\* the arguments of upsert_email_account after a successful exchange
UpsertParams(kind, account, tokens, t) ==
    [p_user_id |-> UpsertUserId(kind, account),
     p_provider |-> account.provider,
     p_email |-> account.email,
     p_access_token |-> tokens.access_token,
     p_refresh_token |-> account.refresh_token,
     p_expires_at |-> t + tokens.expires_in]

\* outcomes of the token endpoint: a 2xx JSON reply, a non-2xx JSON reply,
\* fetch rejecting, and a reply whose body is not JSON
ExchangeOutcomes == {"ok", "not_ok", "transport_error", "bad_body"}

\* fetch(...) and tokenResponse.json() reject on these, and nothing in
\* refreshTokenIfNeeded catches it
ExchangeThrows(outcome) == outcome \in {"transport_error", "bad_body"}

\* outcomes of the upsert RPC: the client resolves to {error} and never rejects
UpsertOutcomes == {"ok", "error"}

\* the access token the n-th exchange of account i issues (the token stored
\* at first is i)
NewToken(i, n) == 10 * n + i

----------------------------------------------------------------------------
(* Records of the invocation model *)

NoTokens == [access_token |-> 0, expires_in |-> 0]

NoParams ==
    [p_user_id |-> "none", p_provider |-> "none", p_email |-> "none",
     p_access_token |-> 0, p_refresh_token |-> 0, p_expires_at |-> 0]

NoResult ==
    [status |-> "none", emails |-> <<>>, total |-> 0, accounts |-> <<>>,
     message |-> "", raised |-> FALSE]

\* loaded: get_user_email_accounts has resolved without error
IdleCall ==
    [kind |-> "none", pc |-> "idle", provider |-> NoProvider, maxResults |-> 0,
     valid |-> TRUE, loaded |-> FALSE, accounts |-> <<>>, filtered |-> <<>>, result |-> NoResult]

\* the response of an entry point
Response(status, emails, total, accounts, message) ==
    [status |-> status, emails |-> emails, total |-> total, accounts |-> accounts,
     message |-> message, raised |-> FALSE]

\* the handler rejects: the error leaves the entry point
Raised(message) ==
    [status |-> "raised", emails |-> <<>>, total |-> 0, accounts |-> <<>>,
     message |-> message, raised |-> TRUE]

\* the response of an entry point's own catch block
ErrorResponse(kind) ==
    Response("error", <<>>, 0, <<>>,
             CASE kind = "server_search" -> "Error searching emails"
               [] kind = "server_compose" -> "Error sending email"
               [] kind = "route_get" -> "Internal server error"
               [] OTHER -> "Failed to send email")

\* the address of a metadata entry that carries none
NoAddress == <<>>

\* the per-account connection metadata of a search response: provider and
\* email in the route and the chat client, the provider only in the server
ConnectionMeta(kind, accounts, filtered) ==
    [k \in 1..Len(filtered) |->
        [provider |-> accounts[filtered[k]].provider,
         email |-> IF kind = "server_search" THEN NoAddress
                   ELSE accounts[filtered[k]].email]]

----------------------------------------------------------------------------
(* Loading the accounts: the code from the store call to the fan-out *)

\* the response when get_user_email_accounts resolves to {error}
StoreErrorResponse(kind) ==
    CASE kind = "server_search" -> ErrorResponse(kind)
      [] kind = "server_compose" -> ErrorResponse(kind)
      [] kind = "route_get" -> Response("error", <<>>, 0, <<>>, "Failed to fetch accounts")
      [] kind = "client_search" -> Response("info", <<>>, 0, <<>>, "No email accounts connected")
      [] OTHER -> Response("error", <<>>, 0, <<>>, "No email accounts connected")

\* whether the handler returns before the fan-out, given the loaded accounts
ReturnsEarly(kind, accounts, filtered) ==
    CASE kind = "server_search" -> Len(filtered) = 0
      [] kind = "server_compose" -> Len(filtered) = 0
      [] kind = "route_post" -> Len(accounts) = 0 \/ Len(filtered) = 0
      [] OTHER -> Len(accounts) = 0

\* the response of that early return
EarlyResponse(kind, provider, accounts) ==
    CASE kind = "server_search" ->
            Response("info", <<>>, 0, <<>>,
                     "No email accounts connected or no accounts match the specified provider.")
      [] kind \in {"route_get", "client_search"} ->
            Response("info", <<>>, 0, <<>>, "No email accounts connected")
      [] OTHER ->
            Response("error", <<>>, 0, <<>>,
                     IF provider # NoProvider /\ (kind = "server_compose" \/ Len(accounts) > 0)
                     THEN "No provider account connected"
                     ELSE "No email accounts connected")

----------------------------------------------------------------------------
(* Provider replies *)

\* the Date headers a provider may return
AllDates == {<<2024, 1, 1>>, <<2024, 2, 1>>, <<2024, 3, 1>>, EmptyDate}

\* the Date header of the k-th message of account i's mailbox in the
\* invocation model: 2024-01-01, 2024-02-01 or 2024-03-01, in no order
MailDate(i, k) == <<2024, ((i + 2 * k) % 3) + 1, 1>>

\* the canonical message built from the k-th item of account i's reply
Message(i, k, date, provider) ==
    [id |-> <<i, k>>, date |-> date, provider |-> provider]

\* the number of messages one search returns at most
ReplyCap(maxResults) == IF maxResults < MaxMsgs THEN maxResults ELSE MaxMsgs

\* the lists a provider search may return: at most maxResults messages dated
\* from dates
SearchReplies(i, provider, maxResults, dates) ==
    UNION { { [k \in 1..n |-> Message(i, k, ds[k], provider)] : ds \in [1..n -> dates] }
            : n \in 0..ReplyCap(maxResults) }

\* the replies of account i's mailbox in the invocation model: its first n
\* messages
MailboxReplies(i, provider, maxResults) ==
    { [k \in 1..n |-> Message(i, k, MailDate(i, k), provider)] :
        n \in 0..ReplyCap(maxResults) }

----------------------------------------------------------------------------
(* The invocation: actions *)

\* a fan-out whose branches have no try/catch
BranchCatchesNothing(kind) == FALSE

\* the try/catch around one account's branch (searches only)
BranchCatches(kind) == kind \in SearchKinds

\* the adapter call that follows the token manager in a branch
AdapterPc(kind) == IF kind \in SearchKinds THEN "search" ELSE "send"

\* refreshTokenIfNeeded returned tok: the adapter call is issued with it
IssueAdapterCall(br, kind, tok) ==
    [br EXCEPT !.token = tok, !.pc = AdapterPc(kind), !.called = @ + 1]

\* a catch that issues the failed call a second time before it gives up
ThrowRetries(b, br) ==
    IF br.exchanged + br.called < 2
    THEN /\ branch' = [branch EXCEPT ![b] =
                          IF br.pc = "exchange" THEN [br EXCEPT !.exchanged = @ + 1]
                          ELSE [br EXCEPT !.called = @ + 1]]
         /\ UNCHANGED call
    ELSE IF BranchCatches(call.kind)
    THEN /\ branch' = [branch EXCEPT ![b] = [br EXCEPT !.pc = "settled",
                                                       !.out = <<>>, !.failed = TRUE]]
         /\ UNCHANGED call
    ELSE /\ branch' = [branch EXCEPT ![b] = [br EXCEPT !.pc = "settled", !.failed = TRUE]]
         /\ call' = [call EXCEPT !.pc = "done", !.result = ErrorResponse(call.kind)]

\* an error thrown in branch b, whose record is br: absorbed by the branch's catch as an empty
\* list, or propagated to the handler's catch
Throw(b, br) ==
    IF BranchCatches(call.kind)
    THEN /\ branch' = [branch EXCEPT ![b] = [br EXCEPT !.pc = "settled",
                                                       !.out = <<>>, !.failed = TRUE]]
         /\ UNCHANGED call
    ELSE /\ branch' = [branch EXCEPT ![b] = [br EXCEPT !.pc = "settled", !.failed = TRUE]]
         /\ call' = [call EXCEPT !.pc = "done", !.result = ErrorResponse(call.kind)]

\* the branch of the account at index i of the loaded accounts, run up to its
\* first network call: refreshTokenIfNeeded either returns the stored token at
\* once, so that the adapter call is issued, or issues the refresh exchange
NewBranch(kind, accounts, i, t) ==
    LET account == AccountArgument(kind, accounts[i])
        br == [acct |-> i, account |-> account, pc |-> "refresh",
               token |-> 0, tokens |-> NoTokens, params |-> NoParams,
               exchanged |-> 0, exchange |-> "none", upserted |-> 0,
               upsert |-> "none", called |-> 0, out |-> <<>>, failed |-> FALSE]
    IN  IF NeedsRefresh(account.expires_at, t)
           /\ account.provider \in RefreshProviders(kind)
        THEN [br EXCEPT !.pc = "exchange", !.exchanged = @ + 1]
        ELSE IssueAdapterCall(br, kind, account.access_token)

\* a request arrives: its arguments are checked where the entry point checks
\* them; the stubs answer at once, an unknown tool name is thrown
StartCall(kind, provider, maxResults, valid) ==
    /\ call.pc = "idle"
    /\ LET request == [IdleCall EXCEPT !.kind = kind, !.provider = provider,
                                       !.maxResults = maxResults, !.valid = valid]
       IN  call' =
             IF kind = UnknownTool
             THEN [request EXCEPT !.pc = "done", !.result = Raised("Unknown tool")]
             ELSE IF kind = "server_get_email"
             THEN [request EXCEPT !.pc = "done",
                      !.result = Response("ok", <<>>, 0, <<>>,
                                          "Email detail retrieval not yet implemented")]
             ELSE IF kind = "server_summarize"
             THEN [request EXCEPT !.pc = "done",
                      !.result = Response("ok", <<>>, 0, <<>>,
                                          "Email summarization not yet implemented")]
             ELSE IF ~valid /\ kind = "route_post"
             THEN [request EXCEPT !.pc = "done",
                      !.result = Response("error", <<>>, 0, <<>>, "Missing required fields")]
             ELSE IF ~valid /\ kind \in ValidatingKinds
             THEN [request EXCEPT !.pc = "done", !.result = ErrorResponse(kind)]
             ELSE [request EXCEPT !.pc = "load"]
    /\ UNCHANGED <<now, store, branch, issued, chat, probe>>

\* get_user_email_accounts resolves; the handler filters the accounts and
\* starts one branch per eligible account (searches) or one for the first
\* eligible account (sends)
LoadAccounts(outcome) ==
    /\ call.pc = "load"
    /\ IF outcome = "error"
       THEN /\ call' = [call EXCEPT !.pc = "done", !.result = StoreErrorResponse(call.kind)]
            /\ UNCHANGED branch
       ELSE LET accounts == store
                filtered == FilteredAccounts(accounts, call.provider)
                loaded == [call EXCEPT !.loaded = TRUE, !.accounts = accounts,
                                       !.filtered = filtered]
            IN  IF ReturnsEarly(call.kind, accounts, filtered)
                THEN /\ call' = [loaded EXCEPT !.pc = "done",
                                   !.result = EarlyResponse(call.kind, call.provider, accounts)]
                     /\ UNCHANGED branch
                ELSE /\ call' = [loaded EXCEPT !.pc = "fanout"]
                     /\ branch' =
                          IF call.kind \in SearchKinds
                          THEN [k \in 1..Len(filtered) |->
                                   NewBranch(call.kind, accounts, filtered[k], now)]
                          ELSE <<NewBranch(call.kind, accounts, filtered[1], now)>>
    /\ UNCHANGED <<now, store, issued, chat, probe>>

\* the token endpoint answers
ExchangeReply(b, outcome) ==
    /\ call.pc = "fanout"
    /\ b \in 1..Len(branch)
    /\ branch[b].pc = "exchange"
    /\ LET br == [branch[b] EXCEPT !.exchange = outcome] IN
       CASE ExchangeThrows(outcome) ->
              /\ Throw(b, br)
              /\ UNCHANGED issued
         [] outcome = "ok" ->
              LET tokens == [access_token |-> NewToken(br.acct, issued[br.acct] + 1),
                             expires_in |-> ExpiresIn]
              IN  /\ branch' = [branch EXCEPT ![b] =
                        [br EXCEPT !.pc = "upsert", !.tokens = tokens,
                                  !.params = UpsertParams(call.kind, br.account, tokens, now),
                                  !.upserted = @ + 1]]
                  /\ issued' = [issued EXCEPT ![br.acct] = @ + 1]
                  /\ UNCHANGED call
         [] OTHER ->
              /\ branch' = [branch EXCEPT ![b] =
                               IssueAdapterCall(br, call.kind, br.account.access_token)]
              /\ UNCHANGED <<call, issued>>
    /\ UNCHANGED <<now, store, chat, probe>>

\* the upsert RPC resolves; refreshTokenIfNeeded returns tokens.access_token
UpsertReply(b, outcome) ==
    /\ call.pc = "fanout"
    /\ b \in 1..Len(branch)
    /\ branch[b].pc = "upsert"
    /\ store' = IF outcome = "ok" THEN StoreUpsert(store, branch[b].params) ELSE store
    /\ branch' = [branch EXCEPT ![b] =
                     IssueAdapterCall([branch[b] EXCEPT !.upsert = outcome], call.kind,
                                      branch[b].tokens.access_token)]
    /\ UNCHANGED <<now, call, issued, chat, probe>>

\* the provider search of branch b fails (non-2xx, transport or body error)
SearchFails(b) ==
    /\ call.pc = "fanout"
    /\ b \in 1..Len(branch)
    /\ branch[b].pc = "search"
    /\ Throw(b, branch[b])
    /\ UNCHANGED <<now, store, issued, chat, probe>>

\* the provider search of branch b returns a list of messages
SearchReturns(b) ==
    /\ call.pc = "fanout"
    /\ b \in 1..Len(branch)
    /\ branch[b].pc = "search"
    /\ \E msgs \in MailboxReplies(branch[b].acct, branch[b].account.provider,
                                  call.maxResults) :
          branch' = [branch EXCEPT ![b] = [@ EXCEPT !.pc = "settled", !.out = msgs]]
    /\ UNCHANGED <<now, store, call, issued, chat, probe>>

\* the answer of a search whose branches resolved to emailResults
SearchResponse(c, emailResults) ==
    LET allEmails == SortByDateDesc(Flat(emailResults))
    IN  Response("ok", Slice(allEmails, c.maxResults), Len(allEmails),
                 ConnectionMeta(c.kind, c.accounts, c.filtered), "")

\* Promise.all resolved: flatten, sort newest first, truncate, respond
Merge ==
    /\ call.pc = "fanout"
    /\ call.kind \in SearchKinds
    /\ \A b \in 1..Len(branch) : branch[b].pc = "settled"
    /\ LET emailResults == [b \in 1..Len(branch) |-> branch[b].out]
       IN  call' = [call EXCEPT !.pc = "done",
                       !.result = SearchResponse(call, emailResults)]
    /\ UNCHANGED <<now, store, branch, issued, chat, probe>>

\* the provider's send call fails: the handler's catch answers
SendFails(b) ==
    /\ call.pc = "fanout"
    /\ b \in 1..Len(branch)
    /\ branch[b].pc = "send"
    /\ Throw(b, branch[b])
    /\ UNCHANGED <<now, store, issued, chat, probe>>

\* the provider's send call succeeds: the handler answers success
SendSucceeds(b) ==
    /\ call.pc = "fanout"
    /\ b \in 1..Len(branch)
    /\ branch[b].pc = "send"
    /\ branch' = [branch EXCEPT ![b] = [@ EXCEPT !.pc = "settled"]]
    /\ call' = [call EXCEPT !.pc = "done",
                   !.result = Response("ok", <<>>, 0, <<>>, "Email sent successfully")]
    /\ UNCHANGED <<now, store, issued, chat, probe>>

----------------------------------------------------------------------------
(* Initial states and the specification of the invocation model *)

\* minutes from now to the expiry of a stored token: inside the refresh window
\* (4 < 5) and exactly at its edge (5, which is not inside)
ExpiryOffsets == {4, 5}

\* maxResults of the searches of the invocation model: the schema's default
DefaultMaxResults == 20

\* a row of get_user_email_accounts: account i of the owner
AccountRow(i, provider, expires_at) ==
    [provider |-> provider, email |-> <<"mailbox", i>>, access_token |-> i,
     refresh_token |-> 100 + i, expires_at |-> expires_at]

\* the account lists the owner may have connected
AccountLists ==
    UNION { { [i \in 1..n |-> AccountRow(i, ps[i], es[i])] :
                ps \in [1..n -> Providers], es \in [1..n -> ExpiryOffsets] }
            : n \in 0..MaxAccounts }

ChatOff == [pc |-> "off"]

ProbeOff == [pc |-> "off"]

Init ==
    /\ now = 0
    /\ store \in AccountLists
    /\ call = IdleCall
    /\ branch = <<>>
    /\ issued = [i \in 1..MaxAccounts |-> 0]
    /\ chat = ChatOff
    /\ probe = ProbeOff

Next ==
    \/ \E kind \in Kinds, provider \in Providers \cup {NoProvider} :
          \E valid \in IF kind \in SchemaKinds THEN BOOLEAN ELSE {TRUE} :
             StartCall(kind, provider,
                       IF kind \in SearchKinds THEN DefaultMaxResults ELSE 0, valid)
    \/ \E outcome \in {"ok", "error"} : LoadAccounts(outcome)
    \/ \E b \in 1..MaxAccounts, outcome \in ExchangeOutcomes : ExchangeReply(b, outcome)
    \/ \E b \in 1..MaxAccounts, outcome \in UpsertOutcomes : UpsertReply(b, outcome)
    \/ \E b \in 1..MaxAccounts : SearchFails(b)
    \/ \E b \in 1..MaxAccounts : SearchReturns(b)
    \/ Merge
    \/ \E b \in 1..MaxAccounts : SendFails(b)
    \/ \E b \in 1..MaxAccounts : SendSucceeds(b)

Spec == Init /\ [][Next]_vars

----------------------------------------------------------------------------
(* Fan-out search and token lifecycle: the claims *)

SearchDone == call.pc = "done" /\ call.kind \in SearchKinds /\ Len(branch) > 0

\* the branches of the invocation that did not fail
Succeeded == { b \in 1..Len(branch) : ~branch[b].failed }

\* the ids of the messages of a list
Ids(list) == { list[k].id : k \in 1..Len(list) }

RECURSIVE SumLen(_)
SumLen(bs) ==
    IF bs = {} THEN 0
    ELSE LET b == CHOOSE x \in bs : TRUE IN Len(branch[b].out) + SumLen(bs \ {b})

\* C1: when a fan-out search has answered, whatever branches failed, the answer
\* is no error and nothing was raised; total is the number of messages the
\* succeeded accounts returned; the messages are those messages (all of them
\* when they are at most maxResults, else maxResults of them), each once
C1_PartialFailureAbsorbed ==
    SearchDone =>
        /\ call.result.status = "ok"
        /\ ~call.result.raised
        /\ call.result.total = SumLen(Succeeded)
        /\ Ids(call.result.emails) \subseteq UNION { Ids(branch[b].out) : b \in Succeeded }
        /\ Cardinality(Ids(call.result.emails)) = Len(call.result.emails)
        /\ Len(call.result.emails) =
              IF call.result.total < call.maxResults THEN call.result.total
              ELSE call.maxResults

\* C1 witness: one account's branch failed, the other returned two messages,
\* and the search answered with exactly those two
C1_Witness ==
    /\ SearchDone
    /\ Len(branch) = 2
    /\ \E b \in 1..2 : branch[b].failed
    /\ \E b \in 1..2 : ~branch[b].failed /\ Len(branch[b].out) = 2
    /\ call.result.total = 2

\* C2: a branch whose account has expiresAt - now >= 5 minutes issued no
\* refresh exchange and no upsert, left the stored account as loaded, and its
\* adapter call carries the account's existing access token
C2_FreshTokenUntouched ==
    \A b \in 1..Len(branch) :
        branch[b].account.expires_at - now >= RefreshWindow =>
            /\ branch[b].exchanged = 0
            /\ branch[b].upserted = 0
            /\ branch[b].called = 1
            /\ branch[b].token = branch[b].account.access_token
            /\ store[branch[b].acct] = call.accounts[branch[b].acct]

\* C2 witness: a gmail account exactly 5 minutes from expiry went through the
\* token manager and its search was answered
C2_Witness ==
    \E b \in 1..Len(branch) :
        /\ branch[b].account.expires_at - now = RefreshWindow
        /\ branch[b].account.provider = "gmail"
        /\ branch[b].pc = "settled"
        /\ ~branch[b].failed
        /\ branch[b].token = branch[b].account.access_token

\* the refresh of branch b succeeded: 2xx exchange and the upsert resolved
\* without error
RefreshSucceeded(b) ==
    /\ branch[b].exchange = "ok"
    /\ branch[b].upsert = "ok"

\* C3 as claimed: after a successful refresh the store holds the new access
\* token and the new expiry, the stored refresh token is the one loaded, and
\* the token manager returned the new token
C3_RefreshPersisted ==
    \A b \in 1..Len(branch) :
        RefreshSucceeded(b) =>
            /\ store[branch[b].acct].access_token = branch[b].tokens.access_token
            /\ store[branch[b].acct].access_token # branch[b].account.access_token
            /\ store[branch[b].acct].expires_at = now + branch[b].tokens.expires_in
            /\ store[branch[b].acct].refresh_token = branch[b].account.refresh_token
            /\ branch[b].token = branch[b].tokens.access_token

\* the ways a refresh fails
RefreshFailed(b) ==
    \/ branch[b].exchange \in {"not_ok", "transport_error", "bad_body"}
    \/ branch[b].upsert = "error"

\* C4 as claimed: whenever the refresh failed, the token manager did not raise
\* but returned the existing token (the adapter call was issued with it), and
\* the stored account is unchanged
C4_RefreshFailureSoft ==
    \A b \in 1..Len(branch) :
        RefreshFailed(b) =>
            /\ branch[b].called = 1
            /\ branch[b].token = branch[b].account.access_token
            /\ store[branch[b].acct] = call.accounts[branch[b].acct]

\* C5 as claimed: every branch whose account has expiresAt - now < 5 minutes
\* issued the refresh exchange, whatever the provider and the caller
C5_EveryProviderRefreshed ==
    \A b \in 1..Len(branch) :
        branch[b].account.expires_at - now < RefreshWindow => branch[b].exchanged = 1

----------------------------------------------------------------------------
(* Strings as sequences of characters: toLowerCase and trim                 *)

UpperLetters == <<"Y", "E", "S", "C", "O", "N", "F", "I", "R", "M", "P", "L", "A">>

LowerLetters == <<"y", "e", "s", "c", "o", "n", "f", "i", "r", "m", "p", "l", "a">>

\* the characters String.prototype.trim removes
Whitespace == {" ", "\t", "\n"}

\* one character of s.toLowerCase()
ToLowerChar(c) ==
    IF \E k \in 1..Len(UpperLetters) : UpperLetters[k] = c
    THEN LowerLetters[CHOOSE k \in 1..Len(UpperLetters) : UpperLetters[k] = c]
    ELSE c

\* s.toLowerCase()
ToLowerCase(s) == [k \in 1..Len(s) |-> ToLowerChar(s[k])]

RECURSIVE TrimStart(_)
TrimStart(s) ==
    IF s # <<>> /\ Head(s) \in Whitespace THEN TrimStart(Tail(s)) ELSE s

RECURSIVE TrimEnd(_)
TrimEnd(s) ==
    IF s # <<>> /\ s[Len(s)] \in Whitespace
    THEN TrimEnd(SubSeq(s, 1, Len(s) - 1))
    ELSE s

\* the first word of s, as s.trim().split(/\s/)[0] gives it
TrimToWord(s) ==
    LET t == TrimStart(s)
        stops == { k \in 1..Len(t) : t[k] \in Whitespace }
    IN  IF stops = {} THEN t
        ELSE SubSeq(t, 1, (CHOOSE k \in stops : \A j \in stops : k <= j) - 1)

\* s.trim()
Trim(s) == TrimEnd(TrimStart(s))

Yes == <<"y", "e", "s">>

Confirm == <<"c", "o", "n", "f", "i", "r", "m">>

\* the detection without trim()
IsConfirmationUntrimmed(userMessage) ==
    \/ ToLowerCase(userMessage) = Yes
    \/ ToLowerCase(userMessage) = Confirm

\* userMessage.toLowerCase().trim() === 'yes' ||
\* userMessage.toLowerCase().trim() === 'confirm'
IsConfirmation(userMessage) ==
    \/ Trim(ToLowerCase(userMessage)) = Yes
    \/ Trim(ToLowerCase(userMessage)) = Confirm

----------------------------------------------------------------------------
(* Confirmation detection on its own: the user messages of                  *)
(* generateResponse and the branch each of them takes                       *)

\* word with the letters at the positions of caps in upper case
Cased(word, caps) ==
    [k \in 1..Len(word) |->
        IF k \in caps
        THEN UpperLetters[CHOOSE j \in 1..Len(LowerLetters) : LowerLetters[j] = word[k]]
        ELSE word[k]]

\* the runs of whitespace around a reply
Pads == UNION { [1..n -> Whitespace] : n \in 0..MaxPad }

\* every casing of the two tokens, padded with whitespace
TokenMessages ==
    { l \o Cased(word, caps) \o r :
        l \in Pads, r \in Pads,
        word \in {Yes}, caps \in SUBSET (1..Len(Yes)) }
    \cup
    { l \o Cased(word, caps) \o r :
        l \in Pads, r \in Pads,
        word \in {Confirm}, caps \in SUBSET (1..Len(Confirm)) }

YesPlease == <<"y", "e", "s", " ", "p", "l", "e", "a", "s", "e">>

\* replies and requests that are no token
OtherMessages ==
    { YesPlease,
      <<>>,
      <<" ">>,
      <<"y", "e">>,
      <<"y", "e", "s", "s">>,
      <<"y", " ", "e", "s">>,
      <<"y", "e", "s", "!">>,
      <<"n", "o">>,
      <<"o", "k">>,
      <<"y", "e", "s", " ", "c", "o", "n", "f", "i", "r", "m">>,
      <<"c", "o", "n", "f", "i", "r", "m", "e", "d">>,
      <<"C", "o", "n", "f", "i", "r", "m", ".">>,
      <<"s", "e", "n", "d", " ", "i", "t">> }

UserMessages == TokenMessages \cup OtherMessages

\* lines 244-246 and 389: the branch generateResponse takes
DetectConfirmation ==
    /\ probe.pc = "message"
    /\ probe' = [pc |-> "detected",
                 userMessage |-> probe.userMessage,
                 isConfirmation |-> IsConfirmation(probe.userMessage),
                 path |-> IF IsConfirmation(probe.userMessage)
                          THEN "send" ELSE "composition"]
    /\ UNCHANGED <<now, store, call, branch, issued, chat>>

InitConfirm ==
    /\ now = 0
    /\ store = <<>>
    /\ call = IdleCall
    /\ branch = <<>>
    /\ issued = [i \in 1..MaxAccounts |-> 0]
    /\ chat = ChatOff
    /\ probe \in { [pc |-> "message", userMessage |-> m] : m \in UserMessages }

NextConfirm == DetectConfirmation

SpecConfirm == InitConfirm /\ [][NextConfirm]_vars

\* m is a token surrounded by whitespace only, in any casing
IsPaddedToken(m) ==
    \E a \in 0..Len(m), b \in 0..Len(m) :
        /\ a <= b
        /\ \A k \in 1..a : m[k] \in Whitespace
        /\ \A k \in (b + 1)..Len(m) : m[k] \in Whitespace
        /\ ToLowerCase(SubSeq(m, a + 1, b)) \in {Yes, Confirm}

\* C6: a user message takes the send path if and only if it is "yes" or
\* "confirm" once trimmed and lower-cased; "Yes", " confirm " and "YES" do,
\* "yes please" and every other message go to composition.
C6_ConfirmationDetection ==
    probe.pc = "detected" =>
        /\ probe.isConfirmation <=> IsPaddedToken(probe.userMessage)
        /\ (probe.path = "send") <=> probe.isConfirmation
        /\ probe.userMessage \in { <<"Y", "e", "s">>, <<"Y", "E", "S">>,
                                   <<" ", "c", "o", "n", "f", "i", "r", "m", " ">> }
              => probe.path = "send"
        /\ probe.userMessage \in OtherMessages => probe.path = "composition"

\* " confirm " was detected as a confirmation
C6_Witness ==
    /\ probe.pc = "detected"
    /\ probe.userMessage = <<" ", "c", "o", "n", "f", "i", "r", "m", " ">>
    /\ probe.path = "send"

----------------------------------------------------------------------------
(* OpenAIEmailClient.generateResponse: the send-confirmation state machine  *)

\* the user messages of the chat model: "Yes", " confirm ", "yes please", "no"
ChatMessages ==
    { <<"Y", "e", "s">>,
      <<" ", "c", "o", "n", "f", "i", "r", "m", " ">>,
      YesPlease,
      <<"n", "o">> }

\* the text of a conversation turn
TurnContents == {"", "draft"}

\* the conversation histories the caller may supply
Histories ==
    UNION { [1..n -> [role : {"user", "assistant"}, content : TurnContents]]
            : n \in 0..MaxHistory }

\* the index of the last assistant turn of h[1..n], 0 if there is none
RECURSIVE LastAssistantIndex(_, _)
LastAssistantIndex(h, n) ==
    IF n = 0 THEN 0
    ELSE IF h[n].role = "assistant" THEN n
    ELSE LastAssistantIndex(h, n - 1)

\* the content of the last turn, whoever spoke
LastTurnContent(h) ==
    IF h = <<>> THEN Undefined ELSE h[Len(h)].content

\* [...conversationHistory].reverse().find(msg => msg.role === 'assistant')?.content
LastAssistantMessage(h) ==
    IF LastAssistantIndex(h, Len(h)) = 0
    THEN Undefined
    ELSE h[LastAssistantIndex(h, Len(h))].content

\* !v for the values met here: undefined and '' are falsy
Falsy(v) == v \in {Undefined, ""}

\* the values a field of the extracted object may have
ToValues == {Undefined, "", "a@example.com", "b@example.com"}

SubjectValues == {Undefined, "", "Hi"}

BodyValues == {Undefined, "", "Hello"}

NoJson == [type |-> "none", to |-> Undefined, subject |-> Undefined, body |-> Undefined]

\* the JSON texts the extraction may answer with, by the value they denote
JsonValues ==
    [type : {"object"}, to : ToValues, subject : SubjectValues, body : BodyValues]
    \cup { [NoJson EXCEPT !.type = "null"], [NoJson EXCEPT !.type = "array"] }

\* the content of the extraction's reply: the sentinel, the sentinel followed
\* by a line break, no content, prose, or a JSON text
ExtractionContents ==
    { [form |-> f, value |-> NoJson] : f \in {"sentinel", "sentinel_nl", "none", "prose"} }
    \cup { [form |-> "json", value |-> v] : v \in JsonValues }

\* parseResponse before the extraction has answered
NoContent == [form |-> "pending", value |-> NoJson]

\* parseCompletion.choices[0]?.message?.content || ''
ParseResponse(content) ==
    IF content.form = "none" THEN [content EXCEPT !.form = "empty"] ELSE content

\* parseResponse === 'NO_EMAIL_FOUND'
IsSentinel(parseResponse) == parseResponse.form = "sentinel"

\* JSON.parse(parseResponse): a value, or a SyntaxError
JsonParse(parseResponse) ==
    IF parseResponse.form = "json"
    THEN [threw |-> FALSE, value |-> parseResponse.value]
    ELSE [threw |-> TRUE, value |-> NoJson]

\* emailDetails.to of null is a TypeError
FieldAccessThrows(emailDetails) == emailDetails.type = "null"

\* a check of the recipient only
MissingRecipient(emailDetails) == Falsy(emailDetails.to)

\* !emailDetails.to || !emailDetails.subject || !emailDetails.body
MissingFields(emailDetails) ==
    \/ Falsy(emailDetails.to)
    \/ Falsy(emailDetails.subject)
    \/ Falsy(emailDetails.body)

\* Buffer.from(email).toString('base64') made URL-safe: the text, encoded
Base64Url(text) == [encoding |-> "base64url", text |-> text]

\* the raw message of the Gmail send, line by line
GmailRawMessage(emailDetails) ==
    << <<"Content-Type: text/plain; charset=\"UTF-8\"">>,
       <<"MIME-Version: 1.0">>,
       <<"To: ", emailDetails.to>>,
       <<"Subject: ", emailDetails.subject>>,
       <<>>,
       <<emailDetails.body>> >>

\* the fetch of the Gmail send
GmailSendRequest(account, emailDetails) ==
    [provider |-> "gmail",
     url |-> "https://gmail.googleapis.com/gmail/v1/users/me/messages/send",
     authorization |-> account.access_token,
     body |-> [raw |-> Base64Url(GmailRawMessage(emailDetails))]]

\* a sendMail body whose content is the subject
MicrosoftSendBodySwapped(emailDetails) ==
    [message |->
        [subject |-> emailDetails.subject,
         body |-> [contentType |-> "Text", content |-> emailDetails.subject],
         toRecipients |-> << [emailAddress |-> [address |-> emailDetails.to]] >>]]

\* the body of the Microsoft Graph sendMail call
MicrosoftSendBody(emailDetails) ==
    [message |->
        [subject |-> emailDetails.subject,
         body |-> [contentType |-> "Text", content |-> emailDetails.body],
         toRecipients |-> << [emailAddress |-> [address |-> emailDetails.to]] >>]]

\* the fetch of the Microsoft Graph send
MicrosoftSendRequest(account, emailDetails) ==
    [provider |-> "microsoft",
     url |-> "https://graph.microsoft.com/v1.0/me/sendMail",
     authorization |-> account.access_token,
     body |-> MicrosoftSendBody(emailDetails)]

\* the messages generateResponse returns
NothingToConfirm ==
    <<"I don't see any email to confirm sending. Please try composing your email again.">>

NoAccountsConnected ==
    <<"No email accounts connected. Please connect an email account first.">>

MissingDetails ==
    <<"I couldn't find all the required email details. Please try composing your email again.">>

CannotProcess ==
    <<"I couldn't process the email details. Please try composing your email again.">>

SendFailed(reason) == <<"Failed to send email: ", reason>>

SuccessMessage(emailDetails) ==
    <<"Email sent successfully!\n\nTo: ", emailDetails.to,
      "\nSubject: ", emailDetails.subject,
      "\n\nBody:\n", emailDetails.body,
      "\n\nIs there anything else you'd like me to help you with?">>

\* parseCompletion.choices[0]?.message?.content || '' of the composition
Composed == <<"composed">>

NoAnswer == [raised |-> FALSE, message |-> <<>>]

\* generateResponse resolves to message
Returns(message) == [raised |-> FALSE, message |-> message]

\* generateResponse rejects: POST /api/chat answers 500 with the reason
Raises(reason) == [raised |-> TRUE, message |-> <<reason>>]

NoAccount == AccountRow(0, NoProvider, 0)

\* the reasons a failing call of the language model carries
ModelErrors == {"429 rate limit"}

\* the ways a provider send call can end
SendOutcomes == {"ok", "not_ok", "transport_error"}

\* POST /api/chat calls generateResponse(message, userId, subscription,
\* conversationHistory), which first awaits getEmailContext; refreshes counts
\* the calls of this.refreshTokenIfNeeded, of which generateResponse has none
ChatStart(userMessage, conversationHistory) ==
    /\ chat = ChatOff
    /\ chat' = [pc |-> "context",
                userMessage |-> userMessage,
                conversationHistory |-> conversationHistory,
                isConfirmation |-> FALSE,
                lastAssistantMessage |-> Undefined,
                account |-> NoAccount,
                refreshes |-> 0,
                extractions |-> 0,
                parseResponse |-> NoContent,
                emailDetails |-> NoJson,
                sends |-> <<>>,
                sendOutcome |-> "none",
                compositions |-> 0,
                result |-> NoAnswer]
    /\ UNCHANGED <<now, store, call, branch, issued, probe>>

\* getEmailContext answers; lines 244-253 and 389-432 up to the next await
ContextReply(outcome) ==
    /\ chat.pc = "context"
    /\ IF outcome = "error"
       THEN chat' = [chat EXCEPT !.pc = "done",
                        !.result = Raises("Failed to get email accounts")]
       ELSE LET isConfirmation == IsConfirmation(chat.userMessage)
                lastAssistantMessage == LastAssistantMessage(chat.conversationHistory)
            IN  IF ~isConfirmation
                THEN chat' = [chat EXCEPT !.pc = "composing", !.compositions = @ + 1]
                ELSE IF Falsy(lastAssistantMessage)
                THEN chat' = [chat EXCEPT !.pc = "done", !.isConfirmation = TRUE,
                                 !.lastAssistantMessage = lastAssistantMessage,
                                 !.result = Returns(NothingToConfirm)]
                ELSE chat' = [chat EXCEPT !.pc = "accounts", !.isConfirmation = TRUE,
                                 !.lastAssistantMessage = lastAssistantMessage]
    /\ UNCHANGED <<now, store, call, branch, issued, probe>>

\* get_user_email_accounts answers; lines 261-308 up to the extraction call
AccountsReply(outcome) ==
    /\ chat.pc = "accounts"
    /\ IF outcome = "error" \/ Len(store) = 0
       THEN chat' = [chat EXCEPT !.pc = "done", !.result = Returns(NoAccountsConnected)]
       ELSE chat' = [chat EXCEPT !.pc = "extracting", !.account = store[1],
                        !.extractions = @ + 1]
    /\ UNCHANGED <<now, store, call, branch, issued, probe>>

\* the extraction call rejects: the outer catch answers
ExtractionFails(reason) ==
    /\ chat.pc = "extracting"
    /\ chat' = [chat EXCEPT !.pc = "done", !.result = Returns(SendFailed(reason))]
    /\ UNCHANGED <<now, store, call, branch, issued, probe>>

\* the extraction call answers; lines 310-376 up to the send's fetch
ExtractionReply(content) ==
    /\ chat.pc = "extracting"
    /\ LET parseResponse == ParseResponse(content)
           parsed == JsonParse(parseResponse)
           emailDetails == parsed.value
           heard == [chat EXCEPT !.parseResponse = parseResponse]
       IN  IF IsSentinel(parseResponse)
           THEN chat' = [heard EXCEPT !.pc = "done", !.result = Returns(NothingToConfirm)]
           ELSE IF parsed.threw \/ FieldAccessThrows(emailDetails)
           THEN chat' = [heard EXCEPT !.pc = "done", !.result = Returns(CannotProcess)]
           ELSE IF MissingFields(emailDetails)
           THEN chat' = [heard EXCEPT !.pc = "done", !.emailDetails = emailDetails,
                            !.result = Returns(MissingDetails)]
           ELSE IF chat.account.provider = "gmail"
           THEN chat' = [heard EXCEPT !.pc = "sending", !.emailDetails = emailDetails,
                            !.sends = Append(@, GmailSendRequest(chat.account, emailDetails))]
           ELSE IF chat.account.provider = "microsoft"
           THEN chat' = [heard EXCEPT !.pc = "sending", !.emailDetails = emailDetails,
                            !.sends = Append(@, MicrosoftSendRequest(chat.account, emailDetails))]
           ELSE chat' = [heard EXCEPT !.pc = "done", !.emailDetails = emailDetails,
                            !.result = Returns(SuccessMessage(emailDetails))]
    /\ UNCHANGED <<now, store, call, branch, issued, probe>>

\* the send's fetch settles; lines 345-347, 373-382
SendReply(outcome) ==
    /\ chat.pc = "sending"
    /\ chat' = [chat EXCEPT !.pc = "done", !.sendOutcome = outcome,
                   !.result = IF outcome = "ok"
                              THEN Returns(SuccessMessage(chat.emailDetails))
                              ELSE Returns(CannotProcess)]
    /\ UNCHANGED <<now, store, call, branch, issued, probe>>

\* the composition call answers
CompositionReply ==
    /\ chat.pc = "composing"
    /\ chat' = [chat EXCEPT !.pc = "done", !.result = Returns(Composed)]
    /\ UNCHANGED <<now, store, call, branch, issued, probe>>

\* the composition call rejects: generateResponse rejects
CompositionFails(reason) ==
    /\ chat.pc = "composing"
    /\ chat' = [chat EXCEPT !.pc = "done", !.result = Raises(reason)]
    /\ UNCHANGED <<now, store, call, branch, issued, probe>>

InitChat ==
    /\ now = 0
    /\ store \in AccountLists
    /\ call = IdleCall
    /\ branch = <<>>
    /\ issued = [i \in 1..MaxAccounts |-> 0]
    /\ chat = ChatOff
    /\ probe = ProbeOff

NextChat ==
    \/ \E m \in ChatMessages, h \in Histories : ChatStart(m, h)
    \/ \E outcome \in {"ok", "error"} : ContextReply(outcome)
    \/ \E outcome \in {"ok", "error"} : AccountsReply(outcome)
    \/ \E reason \in ModelErrors : ExtractionFails(reason)
    \/ \E content \in ExtractionContents : ExtractionReply(content)
    \/ \E outcome \in SendOutcomes : SendReply(outcome)
    \/ CompositionReply
    \/ \E reason \in ModelErrors : CompositionFails(reason)

SpecChat == InitChat /\ [][NextChat]_vars

----------------------------------------------------------------------------
(* The send-confirmation state machine: the claims *)

\* the history holds no assistant turn
NoAssistantTurn(h) == \A k \in 1..Len(h) : h[k].role # "assistant"

\* C7: a confirmation whose history holds no assistant turn is answered with
\* the "nothing to confirm" message, and neither the extraction nor a provider
\* send is called.
C7_NoDraftNoSend ==
    (chat.pc # "off" /\ IsPaddedToken(chat.userMessage)
        /\ NoAssistantTurn(chat.conversationHistory)) =>
        /\ chat.extractions = 0
        /\ chat.sends = <<>>
        /\ chat.pc \in {"context", "done"}
        /\ (chat.pc = "done" /\ chat.isConfirmation)
              => chat.result = [raised |-> FALSE, message |-> NothingToConfirm]

\* "Yes" after two user turns was answered with the abort message
C7_Witness ==
    /\ chat.pc = "done"
    /\ chat.isConfirmation
    /\ Len(chat.conversationHistory) = 2
    /\ NoAssistantTurn(chat.conversationHistory)
    /\ chat.conversationHistory[2].content = "draft"
    /\ chat.result.message = NothingToConfirm

\* the extraction answered the sentinel
AnsweredSentinel == chat.parseResponse.form = "sentinel"

\* the extraction answered something that is no JSON object
AnsweredNoObject ==
    \/ chat.parseResponse.form \in {"sentinel_nl", "empty", "prose"}
    \/ /\ chat.parseResponse.form = "json"
       /\ chat.parseResponse.value.type # "object"

\* the extraction answered an object without a to, a subject or a body
AnsweredIncomplete ==
    /\ chat.parseResponse.form = "json"
    /\ chat.parseResponse.value.type = "object"
    /\ \/ chat.parseResponse.value.to \in {Undefined, ""}
       \/ chat.parseResponse.value.subject \in {Undefined, ""}
       \/ chat.parseResponse.value.body \in {Undefined, ""}

\* C8: when the extraction answers the sentinel, something that is no
\* parseable JSON object, or an object lacking to, subject or body, the
\* confirmation is answered with an explanatory abort message and no provider
\* send is called.
C8_BadExtractionAborts ==
    (chat.pc # "off" /\ (AnsweredSentinel \/ AnsweredNoObject \/ AnsweredIncomplete)) =>
        /\ chat.pc = "done"
        /\ chat.sends = <<>>
        /\ ~chat.result.raised
        /\ chat.result.message \in {NothingToConfirm, CannotProcess, MissingDetails}
        /\ AnsweredSentinel => chat.result.message = NothingToConfirm

\* an object without subject was answered with the abort message
C8_Witness ==
    /\ chat.pc = "done"
    /\ chat.parseResponse.form = "json"
    /\ chat.parseResponse.value.type = "object"
    /\ chat.parseResponse.value.to = "a@example.com"
    /\ chat.parseResponse.value.subject = Undefined
    /\ chat.parseResponse.value.body = "Hello"
    /\ chat.result.message = MissingDetails
    /\ chat.sends = <<>>

\* the extraction answered {to, subject, body}
AnsweredDraft ==
    /\ chat.parseResponse.form = "json"
    /\ chat.parseResponse.value.type = "object"
    /\ ~AnsweredIncomplete

\* the recipient, subject and body a send request carries
SentTo(req) ==
    IF req.provider = "gmail"
    THEN req.body.raw.text[3][2]
    ELSE req.body.message.toRecipients[1].emailAddress.address

SentSubject(req) ==
    IF req.provider = "gmail"
    THEN req.body.raw.text[4][2]
    ELSE req.body.message.subject

SentBody(req) ==
    IF req.provider = "gmail"
    THEN req.body.raw.text[6][1]
    ELSE req.body.message.body.content

\* C9: when a confirmation follows a draft and the extraction answers
\* {to, subject, body}, the send of the chosen account's provider is called
\* exactly once with these three values, and the success message echoes
\* them.
C9_SendsExactlyTheDraft ==
    /\ chat.pc # "off" => Len(chat.sends) <= 1
    /\ (chat.pc # "off" /\ AnsweredDraft) =>
          LET d == chat.parseResponse.value
          IN  /\ chat.isConfirmation
              /\ ~Falsy(LastAssistantMessage(chat.conversationHistory))
              /\ Len(chat.sends) = 1
              /\ chat.sends[1].provider = store[1].provider
              /\ SentTo(chat.sends[1]) = d.to
              /\ SentSubject(chat.sends[1]) = d.subject
              /\ SentBody(chat.sends[1]) = d.body
              /\ (chat.pc = "done" /\ chat.sendOutcome = "ok") =>
                    /\ ~chat.result.raised
                    /\ Len(chat.result.message) = 7
                    /\ chat.result.message[1] = "Email sent successfully!\n\nTo: "
                    /\ chat.result.message[2] = d.to
                    /\ chat.result.message[4] = d.subject
                    /\ chat.result.message[6] = d.body
              /\ (chat.pc = "done") => chat.sendOutcome # "none"

\* "Hi" / "Hello" went to a@example.com through Microsoft Graph and the
\* success message was returned
C9_Witness ==
    /\ chat.pc = "done"
    /\ AnsweredDraft
    /\ chat.sendOutcome = "ok"
    /\ Len(chat.sends) = 1
    /\ chat.sends[1].provider = "microsoft"
    /\ SentTo(chat.sends[1]) = "a@example.com"
    /\ SentBody(chat.sends[1]) = "Hello"
    /\ chat.result.message[6] = "Hello"

----------------------------------------------------------------------------
(* The merge of a fan-out search on its own: flatten, sort, truncate        *)

\* maxResults of the merges: one more than a single search returns, so that
\* some merges are truncated and some are not
MergeLimit == MaxMsgs + 1

\* the merge model lists two accounts, one of each provider
MergePositions == {1, 2}

\* the provider of the account listed at position p
ProviderAt(p) == IF p % 2 = 1 THEN "gmail" ELSE "microsoft"

\* the Date headers of one account's reply
DateLists == UNION { [1..n -> AllDates] : n \in 0..ReplyCap(MergeLimit) }

\* the per-account lists Promise.all resolves to, in the order in which the
\* accounts are listed, for the Date headers the providers returned
EmailResults(dates) ==
    [p \in 1..Len(dates) |->
        [k \in 1..Len(dates[p]) |-> Message(p, k, dates[p][k], ProviderAt(p))]]

\* emailResults.flat(), sort, slice(0, maxResults) and length
MergeResults ==
    /\ probe.pc = "results"
    /\ LET allEmails == SortByDateDesc(Flat(probe.emailResults))
       IN  probe' = [pc |-> "merged",
                     emailResults |-> probe.emailResults,
                     maxResults |-> probe.maxResults,
                     emails |-> Slice(allEmails, probe.maxResults),
                     total |-> Len(allEmails)]
    /\ UNCHANGED <<now, store, call, branch, issued, chat>>

InitMerge ==
    /\ now = 0
    /\ store = <<>>
    /\ call = IdleCall
    /\ branch = <<>>
    /\ issued = [i \in 1..MaxAccounts |-> 0]
    /\ chat = ChatOff
    /\ \E dates \in [MergePositions -> DateLists] :
          probe = [pc |-> "results", emailResults |-> EmailResults(dates),
                   maxResults |-> MergeLimit]

NextMerge == MergeResults

SpecMerge == InitMerge /\ [][NextMerge]_vars

\* date d1 is not older than date d2 (both year, month, day)
NotOlder(d1, d2) ==
    \/ d1[1] > d2[1]
    \/ d1[1] = d2[1] /\ d1[2] > d2[2]
    \/ d1[1] = d2[1] /\ d1[2] = d2[2] /\ d1[3] >= d2[3]

\* every date of the per-account lists parses
AllDatesParse(emailResults) ==
    \A p \in 1..Len(emailResults) : \A k \in 1..Len(emailResults[p]) :
        emailResults[p][k].date # EmptyDate

\* C10: when all dates parse, the messages a fan-out search returns are in
\* date order, newest first, however the messages are spread over the
\* accounts and in whatever order the accounts are listed.
C10_NewestFirst ==
    (probe.pc = "merged" /\ AllDatesParse(probe.emailResults)) =>
        /\ \A i \in 1..Len(probe.emails) : \A j \in i..Len(probe.emails) :
              NotOlder(probe.emails[i].date, probe.emails[j].date)
        /\ Len(probe.emails) = IF probe.total < probe.maxResults
                               THEN probe.total ELSE probe.maxResults
        /\ \A i \in 1..Len(probe.emails) :
              \E p \in 1..Len(probe.emailResults) :
                 \E k \in 1..Len(probe.emailResults[p]) :
                    probe.emailResults[p][k] = probe.emails[i]
        /\ \A p \in 1..Len(probe.emailResults) :
              \A k \in 1..Len(probe.emailResults[p]) :
                 \A i \in 1..Len(probe.emails) :
                    (\A j \in 1..Len(probe.emails) :
                        probe.emails[j] # probe.emailResults[p][k])
                    => NotOlder(probe.emails[i].date, probe.emailResults[p][k].date)

\* 2024-01-01 and 2024-03-01 of the first account and 2024-02-01 of the
\* second were merged to 03-01, 02-01, 01-01
C10_Witness ==
    /\ probe.pc = "merged"
    /\ Len(probe.emailResults[1]) = 2
    /\ probe.emailResults[1][1].date = <<2024, 1, 1>>
    /\ probe.emailResults[1][2].date = <<2024, 3, 1>>
    /\ Len(probe.emailResults[2]) = 1
    /\ probe.emailResults[2][1].date = <<2024, 2, 1>>
    /\ probe.emails[1].date = <<2024, 3, 1>>
    /\ probe.emails[2].date = <<2024, 2, 1>>
    /\ Len(probe.emails) = 3
    /\ probe.emails[3].date = <<2024, 1, 1>>

\* C11 as claimed: in the merged result no message with an unparseable date
\* (the empty date of a missing Date header included) comes before a message
\* with a parseable date, and the messages with parseable dates are in date
\* order, newest first.
C11_UnparseableLast ==
    probe.pc = "merged" =>
        \A i \in 1..Len(probe.emails) : \A j \in i..Len(probe.emails) :
            /\ probe.emails[i].date = EmptyDate => probe.emails[j].date = EmptyDate
            /\ (probe.emails[i].date # EmptyDate /\ probe.emails[j].date # EmptyDate)
                  => NotOlder(probe.emails[i].date, probe.emails[j].date)

----------------------------------------------------------------------------
(* Fan-out search: the shape of the answer *)

\* the per-account lists of the invocation, in the order of the accounts
BranchResults == [b \in 1..Len(branch) |-> branch[b].out]

\* C12 as claimed: a fan-out search reports as total the number of messages
\* of the flattened per-account lists, returns the first min(total,
\* maxResults) messages of the sorted list, and lists provider and address of
\* every eligible account, also of those that returned no message.
C12_TotalSliceAndMetadata ==
    SearchDone =>
        /\ call.result.total = Len(Flat(BranchResults))
        /\ Len(call.result.emails) =
              IF call.result.total < call.maxResults THEN call.result.total
              ELSE call.maxResults
        /\ call.result.emails =
              SubSeq(SortByDateDesc(Flat(BranchResults)), 1, Len(call.result.emails))
        /\ Len(call.result.accounts) = Len(call.filtered)
        /\ \A k \in 1..Len(call.filtered) :
              /\ call.result.accounts[k].provider = call.accounts[call.filtered[k]].provider
              /\ call.result.accounts[k].email = call.accounts[call.filtered[k]].email

\* the search found no eligible account: the owner has none, or the provider
\* filter matches none
NoEligibleAccount ==
    /\ call.pc = "done"
    /\ call.kind \in SearchKinds
    /\ call.loaded
    /\ Len(call.filtered) = 0

\* C13 as claimed: a search with zero eligible accounts, whether the owner has
\* no account or the filter matches none, answers an empty message list with
\* an explanatory status, is no error, and calls no provider.
C13_NoEligibleAccountIsInformational ==
    NoEligibleAccount =>
        /\ call.result.emails = <<>>
        /\ call.result.status = "info"
        /\ call.result.message # ""
        /\ ~call.result.raised
        /\ branch = <<>>

----------------------------------------------------------------------------
(* The tool surface *)

\* the four tools of the server
ToolKinds == {"server_search", "server_compose"} \cup StubKinds

\* C14 as claimed: for each of the four tools, a call whose arguments violate
\* the declared schema is answered with an error response, and neither the
\* account store nor a provider is called.
C14_SchemaViolationRejected ==
    (call.kind \in ToolKinds /\ ~call.valid) =>
        /\ call.pc = "done"
        /\ call.result.status = "error"
        /\ ~call.loaded
        /\ branch = <<>>

\* C15 as claimed: every request to the tool surface, one naming an unknown
\* tool included, is answered with a {content, isError} envelope; nothing is
\* raised out of the call handler.
C15_AlwaysAnEnvelope ==
    (call.kind \in ToolKinds \cup {UnknownTool} /\ call.pc = "done") =>
        /\ ~call.result.raised
        /\ call.result.status \in {"ok", "info", "error"}

----------------------------------------------------------------------------
(* The send-confirmation state machine: dispatch *)

\* C16 as claimed: when the draft was extracted and the provider's send call
\* then fails, the answer is the "Failed to send email: <reason>" message; it
\* is neither the success message nor one of the extraction abort messages.
C16_SendFailureReported ==
    (chat.pc = "done" /\ AnsweredDraft /\ chat.sendOutcome \in {"not_ok", "transport_error"}) =>
        /\ Len(chat.result.message) = 2
        /\ chat.result.message[1] = "Failed to send email: "
        /\ chat.result.message \notin {NothingToConfirm, MissingDetails, CannotProcess}

\* C17: a send (compose_email, POST /api/emails) goes out through the first
\* account of the requested provider when one is requested and through the
\* first account overall when none is; never through an account of another
\* provider than the requested one.
C17_SendsThroughFirstEligible ==
    (call.kind \in SendKinds /\ call.pc \in {"fanout", "done"} /\ call.loaded) =>
        /\ Len(branch) <= 1
        /\ (call.pc = "done" /\ call.result.status = "ok") => Len(branch) = 1
        /\ Len(branch) = 1 =>
              LET i == branch[1].acct
              IN  /\ i \in 1..Len(call.accounts)
                  /\ branch[1].account.email = call.accounts[i].email
                  /\ branch[1].account.provider = call.accounts[i].provider
                  /\ call.provider = NoProvider => i = 1
                  /\ call.provider # NoProvider =>
                        /\ call.accounts[i].provider = call.provider
                        /\ \A j \in 1..(i - 1) : call.accounts[j].provider # call.provider

\* a send for provider microsoft went out through the second account, the
\* first being a gmail account
C17_Witness ==
    /\ call.kind \in SendKinds
    /\ call.pc = "done"
    /\ call.result.status = "ok"
    /\ call.provider = "microsoft"
    /\ Len(call.accounts) = 2
    /\ call.accounts[1].provider = "gmail"
    /\ Len(branch) = 1
    /\ branch[1].acct = 2
    /\ branch[1].called = 1

\* C18 as claimed: every provider send of the state machine is preceded, in
\* the same invocation, by a call of the token manager for the sending
\* account; no send goes out with the stored access token taken directly.
C18_TokenManagerBeforeAdapter ==
    (chat.pc # "off" /\ chat.sends # <<>>) => chat.refreshes >= 1

----------------------------------------------------------------------------
(* Failures of the account store *)

\* the entry point called get_user_email_accounts and it resolved to {error}
StoreFailed ==
    /\ call.pc = "done"
    /\ call.kind \in SearchKinds \cup SendKinds
    /\ call.valid
    /\ ~call.loaded

\* C19 as claimed: when listing the owner's accounts fails, the caller gets an
\* error; the failure is not retried and is never reported as "No email
\* accounts connected" or as an empty successful result.
C19_StoreFailureSurfaced ==
    StoreFailed =>
        /\ call.result.status = "error"
        /\ call.result.message # "No email accounts connected"
        /\ branch = <<>>

----------------------------------------------------------------------------
(* Fan-out search: per-account status *)

\* the per-account lists had every failed branch succeeded with no message
ListsIfNoneFailed ==
    [b \in 1..Len(branch) |-> IF branch[b].failed THEN <<>> ELSE branch[b].out]

\* C20 as claimed: the answer of a fan-out search marks an account whose
\* branch failed as failed, so the answer differs from the one given when
\* that account succeeds with zero messages.
C20_FailedAccountMarked ==
    (SearchDone /\ \E b \in 1..Len(branch) : branch[b].failed) =>
        call.result # SearchResponse(call, ListsIfNoneFailed)

----------------------------------------------------------------------------
(* The provider adapters on their own: searchGmailEmails / fetchGmailEmails, *)
(* searchMicrosoftEmails / fetchMicrosoftEmails, sendGmailEmail and         *)
(* sendMicrosoftEmail, applied to the replies of the provider               *)

\* items one provider reply lists
MaxItems == 2

\* a value that is a string or is absent (undefined, null); a string is the
\* sequence of its pieces, '' the empty sequence
JsUndefined == [type |-> "undefined", text |-> <<>>]

JsString(text) == [type |-> "string", text |-> text]

\* v || d
JsOr(v, d) == IF v.type = "undefined" \/ v.text = <<>> THEN d ELSE v

\* array.join(', ') of an array of strings
RECURSIVE Join(_)
Join(strings) ==
    IF strings = <<>> THEN <<>>
    ELSE IF Len(strings) = 1 THEN <<strings[1]>>
    ELSE <<strings[1], ", ">> \o Join(Tail(strings))

\* headers.find(h => h.name === name)?.value for a header that is missing,
\* empty, or has the given value
HeaderValues(value) == {JsUndefined, JsString(<<>>), JsString(<<value>>)}

NoHeaders ==
    [Subject |-> JsUndefined, From |-> JsUndefined, To |-> JsUndefined,
     Date |-> JsUndefined]

\* the replies to the fetch of one Gmail message: it rejects, answers non-2xx,
\* or answers the message with its headers
GmailDetails ==
    { [outcome |-> o, id |-> "m", headers |-> NoHeaders] : o \in {"rejects", "not_ok"} }
    \cup
    { [outcome |-> "ok", id |-> "m",
       headers |-> [Subject |-> s, From |-> f, To |-> t,
                    Date |-> JsString(<<"Fri, 1 Mar 2024 10:00:00 +0000">>)]] :
        s \in HeaderValues("Hi"), f \in HeaderValues("x@example.com"),
        t \in HeaderValues("me@example.com") }

\* email.toRecipients: absent, or an array of recipients' addresses
Recipients ==
    { [present |-> FALSE, addresses |-> <<>>] }
    \cup { [present |-> TRUE, addresses |-> a] :
             a \in { <<>>, <<"me@example.com">>, <<"me@example.com", "you@example.com">> } }

\* the items of data.value of Microsoft Graph
GraphMessages ==
    [id : {"m"},
     subject : HeaderValues("Hi"),
     from : HeaderValues("x@example.com"),
     toRecipients : Recipients,
     receivedDateTime : {JsString(<<"2024-03-01T10:00:00Z">>)}]

\* the HTTP statuses and error texts of a provider's non-2xx answer
UpstreamStatuses == {"401", "500"}

UpstreamMessage == "Invalid Credentials"

\* the body of a non-2xx answer: it is no JSON, or its error?.message is
\* this value
ErrorBodies ==
    { [json |-> FALSE, message |-> JsUndefined] }
    \cup { [json |-> TRUE, message |-> v] : v \in HeaderValues(UpstreamMessage) }

NoErrorBody == [json |-> TRUE, message |-> JsUndefined]

\* the replies to a search's first fetch: it rejects, answers non-2xx,
\* answers 2xx with a body that is no JSON, with no messages member (Gmail), or
\* with a list of items
SearchOutcomes(provider, items) ==
    { [outcome |-> "rejects", status |-> "none", errorData |-> NoErrorBody, items |-> <<>>] }
    \cup { [outcome |-> "not_ok", status |-> s, errorData |-> e, items |-> <<>>] :
             s \in UpstreamStatuses, e \in ErrorBodies }
    \cup { [outcome |-> "bad_body", status |-> "200", errorData |-> NoErrorBody,
             items |-> <<>>] }
    \cup (IF provider = "gmail"
          THEN { [outcome |-> "no_messages", status |-> "200", errorData |-> NoErrorBody,
                  items |-> <<>>] }
          ELSE {})
    \cup { [outcome |-> "ok", status |-> "200", errorData |-> NoErrorBody, items |-> l] :
             l \in UNION { [1..n -> items] : n \in 0..MaxItems } }

\* the replies to a send's fetch; a 2xx answer has a JSON body or not
SendReplies ==
    { [outcome |-> "rejects", status |-> "none", errorData |-> NoErrorBody, items |-> <<>>] }
    \cup { [outcome |-> "not_ok", status |-> s, errorData |-> e, items |-> <<>>] :
             s \in UpstreamStatuses, e \in ErrorBodies }
    \cup { [outcome |-> "ok", status |-> "200", errorData |-> e, items |-> <<>>] :
             e \in { NoErrorBody, [json |-> FALSE, message |-> JsUndefined] } }

\* the outcome of an adapter call
NoError == [name |-> "none", message |-> <<>>]

Returned(value) == [threw |-> FALSE, error |-> NoError, value |-> value]

Thrown(name, message) ==
    [threw |-> TRUE, error |-> [name |-> name, message |-> message], value |-> <<>>]

\* fetch(...) rejects
FetchFailed == Thrown("TypeError", <<"fetch failed">>)

\* response.json() rejects
BodyNotJson == Thrown("SyntaxError", <<"Unexpected token in JSON">>)

\* the canonical message of one Gmail detail reply
GmailCanonical(detail) ==
    [id |-> detail.id,
     subject |-> JsOr(detail.headers.Subject, JsString(<<"No Subject">>)),
     from |-> JsOr(detail.headers.From, JsString(<<"Unknown">>)),
     to |-> JsOr(detail.headers.To, JsString(<<>>)),
     date |-> JsOr(detail.headers.Date, JsString(<<>>)),
     provider |-> "gmail"]

\* emails.filter(email => email !== null) over the detail replies
RECURSIVE GmailEmails(_)
GmailEmails(details) ==
    IF details = <<>> THEN <<>>
    ELSE IF Head(details).outcome = "ok"
         THEN <<GmailCanonical(Head(details))>> \o GmailEmails(Tail(details))
         ELSE GmailEmails(Tail(details))

\* searchGmailEmails / fetchGmailEmails
SearchGmailEmails(reply) ==
    CASE reply.outcome = "rejects" -> FetchFailed
      [] reply.outcome = "not_ok" ->
            Thrown("Error", <<"Failed to search ", "Gmail", " messages">>)
      [] reply.outcome = "bad_body" -> BodyNotJson
      [] reply.outcome = "no_messages" -> Returned(<<>>)
      [] OTHER ->
            IF \E k \in 1..Len(reply.items) : reply.items[k].outcome = "rejects"
            THEN FetchFailed
            ELSE Returned(GmailEmails(reply.items))

\* the canonical message of one item of data.value
MicrosoftCanonical(email) ==
    [id |-> email.id,
     subject |-> email.subject,
     from |-> JsOr(email.from, JsString(<<"Unknown">>)),
     to |-> JsOr(IF email.toRecipients.present
                 THEN JsString(Join(email.toRecipients.addresses))
                 ELSE JsUndefined,
                 JsString(<<>>)),
     date |-> email.receivedDateTime,
     provider |-> "microsoft"]

\* searchMicrosoftEmails / fetchMicrosoftEmails
SearchMicrosoftEmails(reply) ==
    CASE reply.outcome = "rejects" -> FetchFailed
      [] reply.outcome = "not_ok" ->
            Thrown("Error", <<"Failed to fetch ", "Microsoft", " emails">>)
      [] reply.outcome = "bad_body" -> BodyNotJson
      [] OTHER ->
            Returned([k \in 1..Len(reply.items) |-> MicrosoftCanonical(reply.items[k])])

\* errorData.error?.message || 'Unknown error'
UpstreamText(errorData) == JsOr(errorData.message, JsString(<<"Unknown error">>)).text

\* sendGmailEmail
SendGmailEmail(reply) ==
    CASE reply.outcome = "rejects" -> FetchFailed
      [] reply.outcome = "not_ok" ->
            IF ~reply.errorData.json THEN BodyNotJson
            ELSE Thrown("Error", <<"Gmail", " API error: ">> \o UpstreamText(reply.errorData))
      [] OTHER ->
            IF ~reply.errorData.json THEN BodyNotJson ELSE Returned(<<"sent">>)

\* sendMicrosoftEmail
SendMicrosoftEmail(reply) ==
    CASE reply.outcome = "rejects" -> FetchFailed
      [] reply.outcome = "not_ok" ->
            IF ~reply.errorData.json THEN BodyNotJson
            ELSE Thrown("Error", <<"Microsoft", " Graph API error: ">>
                                 \o UpstreamText(reply.errorData))
      [] OTHER -> Returned(<<"sent">>)

\* a search adapter is called and the provider replies
AdapterSearch ==
    /\ probe.pc = "search"
    /\ probe' = [probe EXCEPT !.pc = "searched",
                    !.result = IF probe.provider = "gmail"
                               THEN SearchGmailEmails(probe.reply)
                               ELSE SearchMicrosoftEmails(probe.reply)]
    /\ UNCHANGED <<now, store, call, branch, issued, chat>>

\* a send adapter is called and the provider replies
AdapterSend ==
    /\ probe.pc = "send"
    /\ probe' = [probe EXCEPT !.pc = "sent",
                    !.result = IF probe.provider = "gmail"
                               THEN SendGmailEmail(probe.reply)
                               ELSE SendMicrosoftEmail(probe.reply)]
    /\ UNCHANGED <<now, store, call, branch, issued, chat>>

InitAdapter ==
    /\ now = 0
    /\ store = <<>>
    /\ call = IdleCall
    /\ branch = <<>>
    /\ issued = [i \in 1..MaxAccounts |-> 0]
    /\ chat = ChatOff
    /\ \/ \E reply \in SearchOutcomes("gmail", GmailDetails) :
             probe = [pc |-> "search", provider |-> "gmail", reply |-> reply,
                      result |-> Returned(<<>>)]
       \/ \E reply \in SearchOutcomes("microsoft", GraphMessages) :
             probe = [pc |-> "search", provider |-> "microsoft", reply |-> reply,
                      result |-> Returned(<<>>)]
       \/ \E provider \in Providers, reply \in SendReplies :
             probe = [pc |-> "send", provider |-> provider, reply |-> reply,
                      result |-> Returned(<<>>)]

NextAdapter == AdapterSearch \/ AdapterSend

SpecAdapter == InitAdapter /\ [][NextAdapter]_vars

\* v is a string that is not empty
Present(v) == v.type = "string" /\ v.text # <<>>

\* C21 as claimed: every canonical message a search adapter returns has a
\* present subject, from and to: none of them is absent or empty.
C21_FieldsDefaulted ==
    (probe.pc = "searched" /\ ~probe.result.threw) =>
        \A k \in 1..Len(probe.result.value) :
            /\ Present(probe.result.value[k].subject)
            /\ Present(probe.result.value[k].from)
            /\ Present(probe.result.value[k].to)

\* message holds piece
Mentions(message, piece) == \E k \in 1..Len(message) : message[k] = piece

\* the name by which an adapter's error names its provider
ProviderName(provider) == IF provider = "gmail" THEN "Gmail" ELSE "Microsoft"

\* the provider answered non-2xx or the fetch failed
ProviderCallFailed ==
    /\ probe.pc \in {"searched", "sent"}
    /\ probe.reply.outcome \in {"rejects", "not_ok"}

\* C22 as claimed: every failure of a provider search or send call is raised
\* by the adapter as an error that carries the provider's name and the
\* upstream status or message.
C22_ProviderCallFailedCarriesCause ==
    ProviderCallFailed =>
        /\ probe.result.threw
        /\ Mentions(probe.result.error.message, ProviderName(probe.provider))
        /\ probe.reply.outcome = "not_ok" =>
              \/ Mentions(probe.result.error.message, probe.reply.status)
              \/ /\ Present(probe.reply.errorData.message)
                 /\ Mentions(probe.result.error.message, UpstreamMessage)

----------------------------------------------------------------------------
(* Concurrent invocations that run the token manager on the same account:   *)
(* each has loaded the account row and calls its copy of                    *)
(* refreshTokenIfNeeded; the store executes the upserts one at a time       *)

\* invocations running at once
MaxRefreshers == 2

\* minutes the clock advances while they run
MaxClock == 2

\* the owner's account the invocations share
SharedAccount == 1

\* the (accessToken, expiresAt) pair of a stored account
TokenPair(row) == [access_token |-> row.access_token, expires_at |-> row.expires_at]

\* an invocation of the given entry point has loaded the account and calls
\* refreshTokenIfNeeded, which runs up to its first network call
RefreshStart(kind) ==
    /\ probe.pc = "race"
    /\ Len(branch) < MaxRefreshers
    /\ branch' = Append(branch, NewBranch(kind, store, SharedAccount, now))
    /\ probe' = [probe EXCEPT !.kinds = Append(@, kind)]
    /\ UNCHANGED <<now, store, call, issued, chat>>

\* the token endpoint answers invocation b; grants records the token it
\* issued and the time at which that token expires
RefreshExchangeReply(b, outcome) ==
    /\ probe.pc = "race"
    /\ b \in 1..Len(branch)
    /\ branch[b].pc = "exchange"
    /\ LET br == [branch[b] EXCEPT !.exchange = outcome]
           kind == probe.kinds[b]
       IN  CASE ExchangeThrows(outcome) ->
                  /\ branch' = [branch EXCEPT ![b] = [br EXCEPT !.pc = "settled",
                                                               !.failed = TRUE]]
                  /\ UNCHANGED <<issued, probe>>
             [] outcome = "ok" ->
                  LET tokens == [access_token |-> NewToken(br.acct, issued[br.acct] + 1),
                                 expires_in |-> ExpiresIn]
                  IN  /\ branch' = [branch EXCEPT ![b] =
                            [br EXCEPT !.pc = "upsert", !.tokens = tokens,
                                      !.params = UpsertParams(kind, br.account, tokens, now),
                                      !.upserted = @ + 1]]
                      /\ issued' = [issued EXCEPT ![br.acct] = @ + 1]
                      /\ probe' = [probe EXCEPT !.grants =
                            Append(@, [access_token |-> tokens.access_token,
                                       expires_at |-> now + tokens.expires_in])]
             [] OTHER ->
                  /\ branch' = [branch EXCEPT ![b] =
                                   IssueAdapterCall(br, kind, br.account.access_token)]
                  /\ UNCHANGED <<issued, probe>>
    /\ UNCHANGED <<now, store, call, chat>>

\* the store executes the upsert of invocation b and answers; upserts records
\* the upserts the store answered without error, in the order it executed them
RefreshUpsertReply(b, outcome) ==
    /\ probe.pc = "race"
    /\ b \in 1..Len(branch)
    /\ branch[b].pc = "upsert"
    /\ store' = IF outcome = "ok" THEN StoreUpsert(store, branch[b].params) ELSE store
    /\ probe' = IF outcome = "ok"
                THEN [probe EXCEPT !.upserts = Append(@, branch[b].params)]
                ELSE probe
    /\ branch' = [branch EXCEPT ![b] =
                     IssueAdapterCall([branch[b] EXCEPT !.upsert = outcome], probe.kinds[b],
                                      branch[b].tokens.access_token)]
    /\ UNCHANGED <<now, call, issued, chat>>

\* a minute passes
Tick ==
    /\ probe.pc = "race"
    /\ now < MaxClock
    /\ now' = now + 1
    /\ UNCHANGED <<store, call, branch, issued, chat, probe>>

InitRace ==
    /\ now = 0
    /\ store \in { <<AccountRow(SharedAccount, p, e)>> : p \in Providers, e \in ExpiryOffsets }
    /\ call = IdleCall
    /\ branch = <<>>
    /\ issued = [i \in 1..MaxAccounts |-> 0]
    /\ chat = ChatOff
    /\ probe = [pc |-> "race", kinds |-> <<>>, initial |-> store[SharedAccount],
                grants |-> <<>>, upserts |-> <<>>]

NextRace ==
    \/ \E kind \in SearchKinds \cup SendKinds : RefreshStart(kind)
    \/ \E b \in 1..MaxRefreshers, outcome \in ExchangeOutcomes :
          RefreshExchangeReply(b, outcome)
    \/ \E b \in 1..MaxRefreshers, outcome \in UpsertOutcomes : RefreshUpsertReply(b, outcome)
    \/ Tick

SpecRace == InitRace /\ [][NextRace]_vars

\* the stored pair is the one loaded at first or the pair of one grant
PairOfOneRefresh ==
    \/ TokenPair(store[SharedAccount]) = TokenPair(probe.initial)
    \/ \E g \in 1..Len(probe.grants) : TokenPair(store[SharedAccount]) = probe.grants[g]

\* the pair of the upsert the store executed last
LastUpsertPair ==
    LET p == probe.upserts[Len(probe.upserts)]
    IN  [access_token |-> p.p_access_token, expires_at |-> p.p_expires_at]

\* C23 as claimed: under every interleaving of concurrent refreshes of one
\* account, the store holds an (accessToken, expiresAt) pair written together
\* by one refresh, the stored refresh token never changes, and after the
\* upserts the stored pair is that of the last upsert.
C23_BenignRefreshRace ==
    probe.pc = "race" =>
        /\ PairOfOneRefresh
        /\ store[SharedAccount].refresh_token = probe.initial.refresh_token
        /\ probe.upserts # <<>> => TokenPair(store[SharedAccount]) = LastUpsertPair

\* the same, for the upserts of invocations other than POST /api/emails
C23_RaceWithoutPost ==
    (probe.pc = "race" /\ \A b \in 1..Len(probe.kinds) : probe.kinds[b] # "route_post") =>
        /\ PairOfOneRefresh
        /\ store[SharedAccount].refresh_token = probe.initial.refresh_token
        /\ probe.upserts # <<>> => TokenPair(store[SharedAccount]) = LastUpsertPair

----------------------------------------------------------------------------
(* The fan-out of a search with the outcome of every account fixed: the     *)
(* branches settle in any order, Promise.all resolves, the lists are merged *)

\* what the branch of one account comes to: its search throws, or returns
\* the messages with these Date headers
BranchOutcomes ==
    { [failed |-> TRUE, dates |-> <<>>] }
    \cup { [failed |-> FALSE, dates |-> d] : d \in DateLists }

\* the list the branch at position p resolves to: [] from its catch block,
\* else the messages of its search
BranchList(outcomes, p) ==
    IF outcomes[p].failed THEN <<>>
    ELSE [k \in 1..Len(outcomes[p].dates) |->
             Message(p, k, outcomes[p].dates[k], ProviderAt(p))]

\* the branch at position p settles
BranchSettles(p) ==
    /\ probe.pc = "fanout"
    /\ p \in MergePositions
    /\ \A k \in 1..Len(probe.order) : probe.order[k] # p
    /\ probe' = [probe EXCEPT !.order = Append(@, p),
                             !.lists[p] = BranchList(probe.outcomes, p)]
    /\ UNCHANGED <<now, store, call, branch, issued, chat>>

\* the lists in the order in which the branches settled
ListsAsSettled == [k \in 1..Len(probe.order) |-> probe.lists[probe.order[k]]]

\* the value of await Promise.all(emailPromises): the lists in the order of
\* the promises, that is of filteredAccounts
ListsOfAll == [p \in 1..Len(probe.lists) |-> probe.lists[p]]

\* Promise.all has resolved: flatten, sort newest first, truncate, respond
MergeSettled ==
    /\ probe.pc = "fanout"
    /\ \A p \in MergePositions : \E k \in 1..Len(probe.order) : probe.order[k] = p
    /\ LET allEmails == SortByDateDesc(Flat(ListsOfAll))
       IN  probe' = [probe EXCEPT !.pc = "answered",
                                !.emails = Slice(allEmails, probe.maxResults),
                                !.total = Len(allEmails)]
    /\ UNCHANGED <<now, store, call, branch, issued, chat>>

InitSettle ==
    /\ now = 0
    /\ store = <<>>
    /\ call = IdleCall
    /\ branch = <<>>
    /\ issued = [i \in 1..MaxAccounts |-> 0]
    /\ chat = ChatOff
    /\ \E outcomes \in [MergePositions -> BranchOutcomes] :
          probe = [pc |-> "fanout", outcomes |-> outcomes, maxResults |-> MergeLimit,
                   order |-> <<>>, lists |-> [p \in MergePositions |-> <<>>],
                   emails |-> <<>>, total |-> 0]

NextSettle ==
    \/ \E p \in MergePositions : BranchSettles(p)
    \/ MergeSettled

SpecSettle == InitSettle /\ [][NextSettle]_vars

\* the per-account lists as the fixed outcomes give them, account by account
OutcomeLists == [p \in 1..Cardinality(MergePositions) |-> BranchList(probe.outcomes, p)]

\* C24: for fixed per-account outcomes, the messages, their order and the
\* total of a fan-out search are the same whatever the order in which the
\* branches settle, and the answer is produced only when every branch has
\* settled.
C24_MergeIgnoresCompletionOrder ==
    /\ probe.pc = "fanout" => probe.emails = <<>> /\ probe.total = 0
    /\ probe.pc = "answered" =>
          /\ Len(probe.order) = Cardinality(MergePositions)
          /\ probe.emails = Slice(SortByDateDesc(Flat(OutcomeLists)), probe.maxResults)
          /\ probe.total = Len(Flat(OutcomeLists))

\* the second account settled first; both returned a message of 2024-02-01,
\* and the answer lists the first account's message first
C24_Witness ==
    /\ probe.pc = "answered"
    /\ probe.order = <<2, 1>>
    /\ probe.outcomes[1].dates = << <<2024, 2, 1>> >>
    /\ probe.outcomes[2].dates = << <<2024, 2, 1>> >>
    /\ probe.total = 2
    /\ probe.emails[1].id = <<1, 1>>
    /\ probe.emails[2].id = <<2, 1>>

----------------------------------------------------------------------------
(* No retry *)

----------------------------------------------------------------------------
(* The send-confirmation state machine: what is not a confirmation *)

\* C26: a user message that is no confirmation token leads to no extraction
\* call and no provider send, whatever the history holds: it is handled as a
\* new request and goes to the composition call.
C26_NonConfirmationComposes ==
    (chat.pc # "off" /\ ~IsPaddedToken(chat.userMessage)) =>
        /\ ~chat.isConfirmation
        /\ chat.extractions = 0
        /\ chat.sends = <<>>
        /\ chat.pc \in {"context", "composing", "done"}
        /\ chat.pc = "composing" => chat.compositions = 1
        /\ chat.pc = "done" => (chat.compositions = 1 \/ chat.result.raised)

\* "yes please" after an assistant's draft went to the composition call and
\* was answered by it
C26_Witness ==
    /\ chat.pc = "done"
    /\ chat.userMessage = YesPlease
    /\ Len(chat.conversationHistory) = 2
    /\ chat.conversationHistory[2] = [role |-> "assistant", content |-> "draft"]
    /\ chat.compositions = 1
    /\ chat.result = Returns(Composed)
    /\ chat.sends = <<>>

----------------------------------------------------------------------------
(* generateResponse on whatever the caller and the store hand to it: a      *)
(* history that ends with the success message of an earlier send, and an    *)
(* account row whose provider is neither gmail nor microsoft                *)

\* the assistant turn that holds the success message of an earlier send
SentTurn == [role |-> "assistant", content |-> "sent"]

\* the histories of a conversation in which an email has just been sent
HistoriesAfterSend == { Append(h, SentTurn) : h \in Histories }

\* a provider for which generateResponse has no send
ForeignProvider == "imap"

\* the rows get_user_email_accounts may answer: none, or a first account of
\* any provider (generateResponse reads accounts[0] only)
FirstAccounts ==
    { <<>> }
    \cup { <<AccountRow(1, p, e)>> : p \in Providers \cup {ForeignProvider},
                                     e \in ExpiryOffsets }

InitChatOpen ==
    /\ now = 0
    /\ store \in FirstAccounts
    /\ call = IdleCall
    /\ branch = <<>>
    /\ issued = [i \in 1..MaxAccounts |-> 0]
    /\ chat = ChatOff
    /\ probe = ProbeOff

NextChatOpen ==
    \/ \E m \in ChatMessages, h \in Histories \cup HistoriesAfterSend : ChatStart(m, h)
    \/ \E outcome \in {"ok", "error"} : ContextReply(outcome)
    \/ \E outcome \in {"ok", "error"} : AccountsReply(outcome)
    \/ \E reason \in ModelErrors : ExtractionFails(reason)
    \/ \E content \in ExtractionContents : ExtractionReply(content)
    \/ \E outcome \in SendOutcomes : SendReply(outcome)
    \/ CompositionReply
    \/ \E reason \in ModelErrors : CompositionFails(reason)

SpecChatOpen == InitChatOpen /\ [][NextChatOpen]_vars

\* C27 as claimed: a confirmation leads to a provider send only when the last
\* assistant turn is a draft awaiting confirmation; after the success message
\* of a send, a further "yes" or "confirm" sends nothing.
C27_DraftSentOnce ==
    (chat.pc # "off" /\ LastAssistantMessage(chat.conversationHistory) = SentTurn.content) =>
        chat.sends = <<>>

\* generateResponse answered the success message
ReportedSuccess ==
    /\ chat.pc = "done"
    /\ ~chat.result.raised
    /\ Len(chat.result.message) = 7
    /\ chat.result.message[1] = "Email sent successfully!\n\nTo: "

\* C29 as claimed: the success message is returned only if, in that
\* invocation, a provider send was issued and returned success; with an
\* account of another provider than gmail and microsoft no success is
\* reported.
C29_SuccessMeansSent ==
    ReportedSuccess =>
        /\ Len(chat.sends) = 1
        /\ chat.sendOutcome = "ok"
        /\ chat.account.provider \in Providers

\* the same, for the accounts of the two providers
C29_SuccessMeansSentKnownProvider ==
    (ReportedSuccess /\ chat.account.provider \in Providers) =>
        /\ Len(chat.sends) = 1
        /\ chat.sendOutcome = "ok"

----------------------------------------------------------------------------
(* The send entry points of the tool surface and the route *)

\* the members of a send request: ComposeEmailArgsSchema of compose_email
\* and the body POST /api/emails reads
SendRequestMembers == {"to", "subject", "body", "provider"}

\* C28 as claimed: a provider send call is issued only after a confirmation
\* of the user was received for the draft; no entry point sends in a single
\* step.
C28_SendOnlyAfterConfirmation ==
    \A b \in 1..Len(branch) :
        (call.kind \in SendKinds /\ branch[b].called >= 1) =>
            "confirmation" \in SendRequestMembers

----------------------------------------------------------------------------
(* The key of the upserts *)

\* C30 as claimed: every upsert a token refresh issues is keyed by the owner
\* id of the session that loaded the account, with the account's own provider
\* and address, on the send path as on the search path.
C30_UpsertKeyedByOwner ==
    \A b \in 1..Len(branch) :
        branch[b].upserted >= 1 =>
            /\ branch[b].params.p_user_id = SessionUser
            /\ branch[b].params.p_provider = call.accounts[branch[b].acct].provider
            /\ branch[b].params.p_email = call.accounts[branch[b].acct].email

\* the same, for every entry point but POST /api/emails
C30_UpsertKeyedByOwnerExceptPost ==
    \A b \in 1..Len(branch) :
        (branch[b].upserted >= 1 /\ call.kind # "route_post") =>
            /\ branch[b].params.p_user_id = SessionUser
            /\ branch[b].params.p_provider = call.accounts[branch[b].acct].provider
            /\ branch[b].params.p_email = call.accounts[branch[b].acct].email

====
